---- MODULE Spec2Model ----
(***************************************************************************)
(* A model of taskgraph-lib: the task graph (src/src/taskgraph.ts), its    *)
(* CRUD operations and the evaluation engine (compute and                  *)
(* depth_first_traverse).                                                  *)
(*                                                                         *)
(* Task objects live in a heap and are named by their reference (their     *)
(* index in the heap): tg.tasks maps ids to references, tg.roots and the   *)
(* dependency / dependee sets hold references, as the JavaScript Map and   *)
(* Sets hold objects.  A JavaScript Set iterates in insertion order, so    *)
(* tg.roots and Task.dependencies, which the code iterates, are sequences  *)
(* without repetition; sets the code only tests or counts are sets.        *)
(***************************************************************************)
EXTENDS Integers, Sequences, FiniteSets, TLC

VARIABLES heap, tasks, roots, last, steps

vars == <<heap, tasks, roots, last, steps>>

----------------------------------------------------------------------------
(* Numbers.  Timestamps are JavaScript numbers: small integers here, with  *)
(* the two infinities, and NaN, null and undefined where the code can      *)
(* produce them.                                                           *)

Inf == 100
NegInf == -100
NaN == 777
Null == -555
Undefined == -999

IsInteger(x) == x \notin {Inf, NegInf, NaN, Null, Undefined}

\* Number.isInteger guard of number_to_int.  Its arguments here are priorities
\* and map sizes, which are always integers, so the throwing branch is never
\* taken; NaN stands for it.
number_to_int(x) == IF IsInteger(x) THEN x ELSE NaN

MathMax(a, b) == IF a >= b THEN a ELSE b

MathMin(a, b) == IF a <= b THEN a ELSE b

\* JavaScript's a + b on numbers, null (0) and undefined (NaN).
JsAdd(a, b) ==
    LET x == IF a = Null THEN 0 ELSE a
        y == IF b = Null THEN 0 ELSE b
    IN  IF x \in {NaN, Undefined} \/ y \in {NaN, Undefined} THEN NaN
        ELSE IF x = Inf THEN (IF y = NegInf THEN NaN ELSE Inf)
        ELSE IF x = NegInf THEN (IF y = Inf THEN NaN ELSE NegInf)
        ELSE IF y \in {Inf, NegInf} THEN y
        ELSE x + y

\* JavaScript truthiness of an optional number parameter (<<>> is undefined).
TruthyNum(p) == p # <<>> /\ p[1] \notin {0, NaN, Null, Undefined}

\* JavaScript truthiness of an optional boolean parameter.
TruthyBool(p) == p # <<>> /\ p[1] = TRUE

----------------------------------------------------------------------------
(* Sequences used as insertion-ordered Sets.                                *)

Range(s) == {s[i] : i \in 1..Len(s)}

\* Set.prototype.add: appends unless present.
SetAdd(s, x) == IF x \in Range(s) THEN s ELSE Append(s, x)

\* Set.prototype.delete: removes, keeping the order of the rest.
SetDelete(s, x) == SelectSeq(s, LAMBDA y : y # x)

----------------------------------------------------------------------------
(* Task records.                                                           *)

NoInstance == [isnull |-> TRUE, id |-> 0, deadline |-> 0, computed_deadline |-> 0]

NoRecurrence ==
    [isnull |-> TRUE, offset |-> 0, offset_base |-> "deadline", next_instance |-> NoInstance]

default_task(id) ==
    [id |-> id,
     deadline |-> Inf, computed_deadline |-> Inf,
     priority |-> 0, computed_priority |-> 0,
     progress |-> "todo", computed_progress |-> "todo",
     birthline |-> NegInf,
     dependencies |-> <<>>, dependees |-> {}, possible_dependencies |-> {},
     auto_fail |-> FALSE, group_like |-> FALSE,
     recurrence |-> NoRecurrence,
     finished |-> Null]

\* The references held by tg.tasks (tg.tasks.values()).
TaskRefs(tg) == {tg.tasks[i] : i \in DOMAIN tg.tasks}

\* smallest_available_id without its loop: the size of tg.tasks.
id_after_size(tg) == number_to_int(Cardinality(DOMAIN tg.tasks))

smallest_available_id(tg) ==
    LET size == Cardinality(DOMAIN tg.tasks)
        free == {i \in 0..(size - 1) : i \notin DOMAIN tg.tasks}
    IN  IF free = {} THEN number_to_int(size)
        ELSE number_to_int(CHOOSE i \in free : \A j \in free : i <= j)

----------------------------------------------------------------------------
(* depth_first_traverse.  The traversal state st carries the heap, the     *)
(* colors map, the possible_dependencies Set of the current root (pd) with *)
(* the tasks that were assigned that same Set object (owners), the thrown  *)
(* error ("" when none), the returned progress and, from the dependency    *)
(* loop, the collected dep_cps.                                            *)

ErrCycle == "Circular dependencies"
ErrRange == "Birthline is after deadline"
ErrNoTask == "reference to non-existent task"
ErrDependees == "Cannot delete task because other tasks depend on it"

\* derived with the tests for a failed and a notyet dependency in the other
\* order.
derived_notyet_first(t, dep_cps, now) ==
    IF t.progress \in {"todo", "started", "done"} THEN
        IF \E i \in 1..Len(dep_cps) : dep_cps[i] = "notyet" THEN "notyet"
        ELSE IF \E i \in 1..Len(dep_cps) : dep_cps[i] = "failed" THEN "failed"
        ELSE IF \A i \in 1..Len(dep_cps) : dep_cps[i] = "done" THEN
            IF now < t.birthline THEN "notyet"
            ELSE IF t.auto_fail /\ t.computed_progress # "done"
                    /\ now > t.computed_deadline THEN "failed"
            ELSE IF t.group_like THEN "done"
            ELSE t.progress
        ELSE "blocked"
    ELSE IF t.progress = "failed" THEN "failed"
    ELSE t.computed_progress

\* Lines 257-284: the progress derived from the dependencies' progress.
derived(t, dep_cps, now) ==
    IF t.progress \in {"todo", "started", "done"} THEN
        IF \E i \in 1..Len(dep_cps) : dep_cps[i] = "failed" THEN "failed"
        ELSE IF \E i \in 1..Len(dep_cps) : dep_cps[i] = "notyet" THEN "notyet"
        ELSE IF \A i \in 1..Len(dep_cps) : dep_cps[i] = "done" THEN
            IF now < t.birthline THEN "notyet"
            ELSE IF t.auto_fail /\ t.computed_progress # "done"
                    /\ now > t.computed_deadline THEN "failed"
            ELSE IF t.group_like THEN "done"
            ELSE t.progress
        ELSE "blocked"
    ELSE IF t.progress = "failed" THEN "failed"
    ELSE t.computed_progress

\* set_progress writing the derived progress to the stored progress as well.
set_progress_stored(t, cp, now) ==
    [t EXCEPT !.computed_progress = cp,
              !.progress = cp,
              !.finished = IF t.computed_progress # "done" /\ cp = "done" THEN now
                           ELSE IF t.computed_progress = "done" /\ cp # "done" THEN Null
                           ELSE @]

\* Lines 286-292 (#1): the finished timestamp, from the old and the new progress.
set_progress(t, cp, now) ==
    [t EXCEPT !.computed_progress = cp,
              !.finished = IF t.computed_progress # "done" /\ cp = "done" THEN now
                           ELSE IF t.computed_progress = "done" /\ cp # "done" THEN Null
                           ELSE @]

\* Lines 255-292.
derive_progress(t, dep_cps, now) == set_progress(t, derived(t, dep_cps, now), now)

\* propagate giving the dependency the dependent's values as they are.
propagate_assign(t, d) ==
    [d EXCEPT !.computed_priority = number_to_int(t.computed_priority),
              !.computed_deadline = t.computed_deadline]

\* Lines 248-249: what walking the edge task -> dep does to dep.
propagate(t, d) ==
    [d EXCEPT !.computed_priority = number_to_int(MathMax(d.computed_priority, t.computed_priority)),
              !.computed_deadline = MathMin(d.computed_deadline, t.computed_deadline)]

\* Line 238: the task is returned as it is, without deriving its progress.
short_circuit(t, color) == Len(t.dependencies) = 0 \/ color = "black"

\* Lines 243-244.
enter(st, task) == [st EXCEPT !.colors[task] = "gray", !.pd = @ \ {task}]

\* Lines 253-295, t being the task with its progress derived.  log is no
\* variable of the code: it records, in order, the tasks whose progress the
\* call derived, each with whether its dependencies were all black then.
leave(st, task, t) ==
    [st EXCEPT !.heap[task] = t, !.owners = @ \cup {task},
               !.colors[task] = "black", !.ret = t.computed_progress,
               !.log = Append(@, [task |-> task,
                                  ready |-> \A d \in Range(t.dependencies) :
                                                st.colors[d] = "black"])]

RECURSIVE depth_first_traverse(_, _, _)
RECURSIVE visit_dependencies(_, _, _, _, _)
RECURSIVE after_dependency(_, _, _, _, _)

\* Line 250, once the recursive call has come back: a throw unwinds the loop.
after_dependency(st, task, i, dep_cps, now) ==
    IF st.err # "" THEN st
    ELSE visit_dependencies(st, task, i + 1, Append(dep_cps, st.ret), now)

\* Lines 247-251: the loop over task.dependencies from position i on.
visit_dependencies(st, task, i, dep_cps, now) ==
    IF i > Len(st.heap[task].dependencies) THEN [st EXCEPT !.cps = dep_cps]
    ELSE after_dependency(
            depth_first_traverse(
                [st EXCEPT !.heap[st.heap[task].dependencies[i]] = propagate(st.heap[task], @)],
                st.heap[task].dependencies[i], now),
            task, i, dep_cps, now)

\* Lines 253-296, st being the state the dependency loop left.
after_dependencies(st, task, now) ==
    IF st.err # "" THEN st
    ELSE leave(st, task, derive_progress(st.heap[task], st.cps, now))

depth_first_traverse(st, task, now) ==
    IF st.colors[task] = "gray" THEN [st EXCEPT !.err = ErrCycle]
    ELSE IF st.heap[task].birthline > st.heap[task].computed_deadline
        THEN [st EXCEPT !.err = ErrRange]
    ELSE IF short_circuit(st.heap[task], st.colors[task])
        THEN [st EXCEPT !.colors[task] = "black",
                        !.ret = st.heap[task].computed_progress]
    ELSE after_dependencies(visit_dependencies(enter(st, task), task, 1, <<>>, now), task, now)

\* task.possible_dependencies = possible_dependencies stores the Set object
\* itself: every owner sees the deletions made later in the same root's walk.
share_possible(st) ==
    [st EXCEPT !.heap = [r \in DOMAIN st.heap |->
                            IF r \in st.owners
                            THEN [st.heap[r] EXCEPT !.possible_dependencies = st.pd]
                            ELSE st.heap[r]],
               !.owners = {}]

RECURSIVE traverse_roots(_, _, _, _)
RECURSIVE after_root(_, _, _, _)

after_root(st, tg, i, now) ==
    IF st.err # "" THEN st ELSE traverse_roots(st, tg, i + 1, now)

\* Lines 199-203: one walk per root, in the roots' iteration order.
traverse_roots(st, tg, i, now) ==
    IF i > Len(tg.roots) THEN st
    ELSE after_root(
            share_possible(depth_first_traverse(
                [st EXCEPT !.colors[tg.roots[i]] = "white", !.pd = TaskRefs(tg), !.owners = {}],
                tg.roots[i], now)),
            tg, i, now)

\* Lines 208-214.
next_deadline(t) ==
    IF t.recurrence.offset_base = "deadline"
    THEN JsAdd(t.computed_deadline, t.recurrence.offset)
    ELSE JsAdd(t.finished, t.recurrence.offset)

\* Lines 215-219: the clone, of which the model keeps the fields set here.
clone_instance(id, deadline) ==
    [isnull |-> FALSE, id |-> id, deadline |-> deadline, computed_deadline |-> deadline]

\* Lines 206-224: the recurrence rule of one task of tg.tasks.
next_recurrence(tg, t) ==
    IF t.recurrence.isnull THEN t
    ELSE IF t.computed_progress = "done"
        THEN [t EXCEPT !.recurrence.next_instance =
                            clone_instance(smallest_available_id(tg), next_deadline(t))]
    ELSE [t EXCEPT !.recurrence.next_instance = NoInstance]

\* Lines 205-225, st being the state the walks left.
after_roots(tg, st) ==
    IF st.err # "" THEN [tg EXCEPT !.heap = st.heap, !.err = st.err]
    ELSE [tg EXCEPT !.err = "",
                    !.heap = [r \in DOMAIN st.heap |->
                                IF r \in TaskRefs(tg)
                                THEN next_recurrence(tg, st.heap[r])
                                ELSE st.heap[r]]]

\* Lines 198-203: the walks of compute(tg, now), from an empty colors map.
walk(tg, now) ==
    traverse_roots([heap |-> tg.heap,
                    colors |-> [r \in DOMAIN tg.heap |-> "none"],
                    pd |-> {}, owners |-> {}, err |-> "", ret |-> "todo", cps |-> <<>>,
                    log |-> <<>>],
                   tg, 1, now)

\* compute(tg, now): the graph after the call, with err = "" when it returned.
compute(tg, now) == after_roots(tg, walk(tg, now))

----------------------------------------------------------------------------
(* tg_from_json and load_tasks.  A JSON document is the sequence of its    *)
(* task records, as jsonTaskArray.parse returns them.                      *)

\* Lines 316-334 with the schema's transforms of task.ts lines 142 and 145;
\* the schema has no key "finished", so json_task.finished is undefined.
task_of_json(jt) ==
    [id |-> jt.id,
     deadline |-> IF jt.deadline = Null THEN Inf ELSE jt.deadline,
     computed_deadline |-> IF jt.deadline = Null THEN Inf ELSE jt.deadline,
     priority |-> jt.priority, computed_priority |-> jt.priority,
     progress |-> jt.progress, computed_progress |-> jt.progress,
     birthline |-> IF jt.birthline = Null THEN NegInf ELSE jt.birthline,
     dependencies |-> <<>>, dependees |-> {}, possible_dependencies |-> {},
     auto_fail |-> jt.auto_fail, group_like |-> jt.group_like,
     recurrence |-> NoRecurrence,
     finished |-> Undefined]

\* Lines 343-345: one dependency of one JSON task.
link(tg, task, dep_task) ==
    [tg EXCEPT !.heap[task].dependencies = SetAdd(@, dep_task),
               !.heap[dep_task].dependees = @ \cup {task},
               !.roots = SetDelete(@, task)]

RECURSIVE link_dependencies(_, _, _, _)
\* Lines 341-346: the dependency ids of one JSON task, from position k on.
link_dependencies(tg, task, deps, k) ==
    IF k > Len(deps) THEN tg
    ELSE IF deps[k] \notin DOMAIN tg.tasks THEN [tg EXCEPT !.err = ErrNoTask]
    ELSE link_dependencies(link(tg, task, tg.tasks[deps[k]]), task, deps, k + 1)

\* Lines 347-352: the rule, its next_instance looked up by id.
link_recurrence(tg, task, rec) ==
    [tg EXCEPT !.heap[task].recurrence =
        [isnull |-> FALSE, offset |-> rec.offset, offset_base |-> rec.offset_base,
         next_instance |->
            IF rec.next_instance \in DOMAIN tg.tasks
            THEN clone_instance(rec.next_instance,
                                tg.heap[tg.tasks[rec.next_instance]].deadline)
            ELSE NoInstance]]

RECURSIVE link_tasks(_, _, _)
RECURSIVE after_link(_, _, _)

after_link(tg, json, i) ==
    IF tg.err # "" THEN tg
    ELSE link_tasks(link_recurrence(tg, tg.tasks[json[i].id], json[i].recurrence), json, i + 1)

\* Lines 339-353: the second loop over the JSON tasks, from position i on.
link_tasks(tg, json, i) ==
    IF i > Len(json) THEN tg
    ELSE after_link(link_dependencies(tg, tg.tasks[json[i].id], json[i].dependencies, 1),
                    json, i)

\* Lines 313-337: the first loop; a later record of an id replaces the earlier
\* one in tg.tasks, and both objects are in roots.
tg_from_json(json) ==
    link_tasks([heap |-> [i \in 1..Len(json) |-> task_of_json(json[i])],
                tasks |-> [id \in {json[i].id : i \in 1..Len(json)} |->
                            CHOOSE i \in 1..Len(json) :
                                /\ json[i].id = id
                                /\ \A j \in 1..Len(json) : json[j].id = id => j <= i],
                roots |-> [i \in 1..Len(json) |-> i],
                err |-> ""],
               json, 1)

\* Line 37, tg being what tg_from_json returned or threw.
compute_loaded(tg, now) == IF tg.err # "" THEN tg ELSE compute(tg, now)

load_tasks(json, now) == compute_loaded(tg_from_json(json), now)

----------------------------------------------------------------------------
(* create_or_update_task and delete_task.  A TaskParams value gives each   *)
(* optional number or boolean as <<>> (absent) or <<v>>; progress is ""    *)
(* when absent; dependencies is <<>> (absent) or <<array of ids>>;         *)
(* recurrence is "undefined", "null" or "rule".                            *)

\* Lines 133-137: whether some dependency id is not in tg.tasks (the throw).
missing_dependency(tg, ids) == \E k \in 1..Len(ids) : ids[k] \notin DOMAIN tg.tasks

RECURSIVE resolve_dependencies(_, _, _)
\* Lines 133-137: new_deps, the Set of the tasks of the ids from position k on.
resolve_dependencies(tg, ids, k) ==
    IF k > Len(ids) THEN <<>>
    ELSE <<tg.tasks[ids[k]]>> \o SetDelete(resolve_dependencies(tg, ids, k + 1), tg.tasks[ids[k]])

\* Lines 140-143: one old dependency that is not among the new ones.
unlink(tg, task, dep) ==
    [tg EXCEPT !.heap[dep].dependees = @ \ {task},
               !.roots = IF tg.heap[dep].dependees \ {task} = {} THEN SetAdd(@, dep) ELSE @]

RECURSIVE drop_dependencies(_, _, _, _, _)
\* Lines 138-145: the loop over the old dependencies, from position k on.
drop_dependencies(tg, task, old, new_deps, k) ==
    IF k > Len(old) THEN tg
    ELSE IF old[k] \in Range(new_deps) THEN drop_dependencies(tg, task, old, new_deps, k + 1)
    ELSE drop_dependencies(unlink(tg, task, old[k]), task, old, new_deps, k + 1)

RECURSIVE add_dependencies(_, _, _, _)
\* Lines 146-150: the assignment and the loop over the new dependencies, from
\* position k on.
add_dependencies(tg, task, new_deps, k) ==
    IF k > Len(new_deps) THEN [tg EXCEPT !.heap[task].dependencies = new_deps]
    ELSE add_dependencies([tg EXCEPT !.heap[new_deps[k]].dependees = @ \cup {task},
                                     !.roots = SetDelete(@, new_deps[k])],
                          task, new_deps, k + 1)

\* Lines 100-104: the task of that id, or a new default task added to roots
\* (and not to tg.tasks).
find_or_create(tg, id) ==
    IF id \in DOMAIN tg.tasks THEN [tg EXCEPT !.cur = tg.tasks[id]]
    ELSE [tg EXCEPT !.heap = Append(@, default_task(id)),
                    !.roots = Append(@, Len(tg.heap) + 1),
                    !.cur = Len(tg.heap) + 1]

\* Lines 105-131: the scalar parameters, each guarded by its truthiness.
set_fields(t, params) ==
    [t EXCEPT
        !.deadline = IF TruthyNum(params.deadline) THEN params.deadline[1] ELSE @,
        !.computed_deadline = IF TruthyNum(params.deadline) THEN params.deadline[1] ELSE @,
        !.priority = IF TruthyNum(params.priority) THEN params.priority[1] ELSE @,
        !.computed_priority = IF TruthyNum(params.priority) THEN params.priority[1] ELSE @,
        !.progress = IF params.progress # "" THEN params.progress ELSE @,
        !.computed_progress = IF params.progress # "" THEN params.progress ELSE @,
        !.birthline = IF TruthyNum(params.birthline) THEN params.birthline[1] ELSE @,
        !.auto_fail = IF TruthyBool(params.auto_fail) THEN TRUE ELSE @,
        !.group_like = IF TruthyBool(params.group_like) THEN TRUE ELSE @]

\* Lines 138-150, new_deps being resolved.
replace_dependencies(tg, task, new_deps) ==
    add_dependencies(drop_dependencies(tg, task, tg.heap[task].dependencies, new_deps, 1),
                     task, new_deps, 1)

\* Lines 132-151: the dependency list, when given.
set_dependencies(tg, task, params) ==
    IF params.dependencies = <<>> THEN tg
    ELSE IF missing_dependency(tg, params.dependencies[1]) THEN [tg EXCEPT !.err = ErrNoTask]
    ELSE replace_dependencies(tg, task, resolve_dependencies(tg, params.dependencies[1], 1))

\* Lines 152-161.
set_recurrence(t, params) ==
    IF params.recurrence = "rule"
    THEN [t EXCEPT !.recurrence =
            [isnull |-> FALSE, offset |-> params.recurrence_offset,
             offset_base |-> params.recurrence_base, next_instance |-> NoInstance]]
    ELSE IF params.recurrence = "null" THEN [t EXCEPT !.recurrence = NoRecurrence]
    ELSE t

\* Lines 105-131, on the task found or created.
update_fields(tg, params) == [tg EXCEPT !.heap[tg.cur] = set_fields(@, params)]

\* Lines 152-163, unless the dependency list threw.
finish_update(tg, params, now) ==
    IF tg.err # "" THEN tg
    ELSE compute([tg EXCEPT !.heap[tg.cur] = set_recurrence(@, params)], now)

\* Lines 132-151, on the task found or created.
update_dependencies(tg, params) == set_dependencies(tg, tg.cur, params)

strip(tg) == [heap |-> tg.heap, tasks |-> tg.tasks, roots |-> tg.roots, err |-> tg.err]

\* Lines 100-151: the graph when the call reaches line 152, or with err set.
updated(tg, id, params) ==
    update_dependencies(
        update_fields(
            find_or_create([heap |-> tg.heap, tasks |-> tg.tasks, roots |-> tg.roots,
                            err |-> "", cur |-> 0], id),
            params),
        params)

create_or_update_task(tg, id, params, now) ==
    strip(finish_update(updated(tg, id, params), params, now))

\* Lines 188-189.
remove_task(tg, id) ==
    [tg EXCEPT !.err = "",
               !.tasks = [i \in DOMAIN tg.tasks \ {id} |-> tg.tasks[i]],
               !.roots = SetDelete(@, tg.tasks[id])]

\* delete_task without the test of the dependees.
delete_task_unchecked(tg, id) ==
    IF id \notin DOMAIN tg.tasks THEN [tg EXCEPT !.err = ""]
    ELSE remove_task(tg, id)

\* Lines 181-192.
delete_task(tg, id) ==
    IF id \notin DOMAIN tg.tasks THEN [tg EXCEPT !.err = ""]
    ELSE IF tg.heap[tg.tasks[id]].dependees # {} THEN [tg EXCEPT !.err = ErrDependees]
    ELSE remove_task(tg, id)

\* Lines 171-173: the reference of the task, or 0 for undefined.
get_task(tg, id) == IF id \in DOMAIN tg.tasks THEN tg.tasks[id] ELSE 0

\* Lines 81-94.
get_all_tasks(tg, filter) ==
    IF filter # ""
    THEN {r \in TaskRefs(tg) : tg.heap[r].computed_progress = filter}
    ELSE TaskRefs(tg)

----------------------------------------------------------------------------
(* The state machine.  heap, tasks and roots are the TaskGraph the caller  *)
(* holds; last records the last call (its operation, target id, now and    *)
(* the error it threw, "" when it returned); steps is the number of calls  *)
(* the run may still make.                                                 *)
(* load_tasks returns a new graph, or throws and returns none: the caller  *)
(* then keeps the graph it had.  create_or_update_task and delete_task     *)
(* work in place, so what they did before throwing stays.                  *)

Graph == [heap |-> heap, tasks |-> tasks, roots |-> roots, err |-> ""]

\* A graph built by hand: { tasks: new Map(), roots: new Set() }.
InitEmpty(budget) ==
    /\ heap = <<>>
    /\ tasks = <<>>
    /\ roots = <<>>
    /\ last = [op |-> "new", id |-> -1, now |-> 0, err |-> ""]
    /\ steps = budget

\* The first call of a run: the graph is loaded from a document.
LoadTasks(json, now) ==
    /\ steps > 0
    /\ last.op = "new"
    /\ LET tg == load_tasks(json, now)
       IN  /\ IF tg.err = ""
              THEN heap' = tg.heap /\ tasks' = tg.tasks /\ roots' = tg.roots
              ELSE UNCHANGED <<heap, tasks, roots>>
           /\ last' = [op |-> "load_tasks", id |-> -1, now |-> now, err |-> tg.err]
    /\ steps' = steps - 1

CreateOrUpdateTask(id, params, now) ==
    /\ steps > 0
    /\ LET tg == create_or_update_task(Graph, id, params, now)
       IN  /\ heap' = tg.heap
           /\ tasks' = tg.tasks
           /\ roots' = tg.roots
           /\ last' = [op |-> "create_or_update_task", id |-> id, now |-> now, err |-> tg.err]
    /\ steps' = steps - 1

DeleteTask(id) ==
    /\ steps > 0
    /\ LET tg == delete_task(Graph, id)
       IN  /\ heap' = tg.heap
           /\ tasks' = tg.tasks
           /\ roots' = tg.roots
           /\ last' = [op |-> "delete_task", id |-> id, now |-> last.now, err |-> tg.err]
    /\ steps' = steps - 1

----------------------------------------------------------------------------
(* Inputs.                                                                 *)

\* Calls per run.
MaxSteps == 3
\* Tasks per document.
MaxTasks == 2
\* The latest now; time does not run backwards between the calls of a run.
MaxNow == 3
\* The highest priority given.
MaxPriority == 2
\* The finite deadline and birthline given, and the recurrence offset.
SomeTime == 2
Offset == 5

Nows == 1..MaxNow

LaterNows == {n \in Nows : n >= last.now}

json_task(id) ==
    [id |-> id, deadline |-> Null, priority |-> 0, progress |-> "todo",
     birthline |-> Null, dependencies |-> <<>>, auto_fail |-> FALSE, group_like |-> FALSE,
     recurrence |-> [offset |-> Offset, offset_base |-> "deadline", next_instance |-> -1]]

NoParams ==
    [deadline |-> <<>>, priority |-> <<>>, progress |-> "", birthline |-> <<>>,
     dependencies |-> <<>>, auto_fail |-> <<>>, group_like |-> <<>>,
     recurrence |-> "undefined", recurrence_base |-> "deadline", recurrence_offset |-> 0]

\* Dependency arrays over the ids 0..n: none, one id, or two distinct ids
\* (n itself is never a task of a document of n tasks).
DepArrays(n) ==
    {<<>>} \cup {<<i>> : i \in 0..n}
           \cup {p \in (0..(n - 1)) \X (0..(n - 1)) : p[1] # p[2]}

\* The documents of n tasks with ids 0..n-1 that differ in their edges only.
EdgeDocs(n) ==
    {[i \in 1..n |-> [json_task(i - 1) EXCEPT !.dependencies = d[i]]] :
        d \in [1..n -> DepArrays(n)]}

JsonDocs == UNION {EdgeDocs(n) : n \in 1..MaxTasks}

Params ==
    {[NoParams EXCEPT !.dependencies = <<d>>] : d \in DepArrays(MaxTasks)}
    \cup {[NoParams EXCEPT !.priority = <<p>>] : p \in {0, MaxPriority}}
    \cup {[NoParams EXCEPT !.priority = <<MaxPriority>>, !.dependencies = <<d>>] :
            d \in {<<MaxTasks>>}}
    \cup {[NoParams EXCEPT !.deadline = <<t>>] : t \in {1, SomeTime}}
    \cup {[NoParams EXCEPT !.priority = <<MaxPriority>>, !.deadline = <<SomeTime>>]}

\* The graph's structure: documents and calls that differ in ids and edges.
Init == InitEmpty(MaxSteps)

Next ==
    \/ \E json \in JsonDocs : LoadTasks(json, 1)
    \/ \E id \in 0..MaxTasks, params \in Params : CreateOrUpdateTask(id, params, 1)
    \/ \E id \in 0..MaxTasks : DeleteTask(id)

Spec == Init /\ [][Next]_vars

----------------------------------------------------------------------------
(* Progress: documents whose tasks differ in the fields the progress       *)
(* derivation reads, evaluated at several times; the calls follow the      *)
(* load.                                                                   *)

ProgressTasks(id) ==
    {json_task(id),
     [json_task(id) EXCEPT !.progress = "done", !.recurrence.offset_base = "finished"],
     [json_task(id) EXCEPT !.progress = "started", !.auto_fail = TRUE, !.deadline = SomeTime],
     [json_task(id) EXCEPT !.group_like = TRUE, !.recurrence.offset_base = "finished"],
     [json_task(id) EXCEPT !.birthline = SomeTime],
     [json_task(id) EXCEPT !.progress = "failed"],
     [json_task(id) EXCEPT !.birthline = MaxNow, !.deadline = SomeTime]}

ProgressDocs ==
    {<<t>> : t \in ProgressTasks(0)}
    \cup {<<[t0 EXCEPT !.dependencies = d], t1>> :
            t0 \in ProgressTasks(0), t1 \in ProgressTasks(1), d \in {<<>>, <<1>>}}

ProgressParams ==
    {[NoParams EXCEPT !.progress = p] : p \in {"todo", "started", "done", "failed"}}
    \cup {[NoParams EXCEPT !.dependencies = <<d>>] : d \in {<<>>, <<1>>}}

InitProgress == InitEmpty(MaxSteps)

NextProgress ==
    \/ \E json \in ProgressDocs, now \in Nows : LoadTasks(json, now)
    \/ \E id \in 0..(MaxTasks - 1), params \in ProgressParams, now \in LaterNows :
            last.op # "new" /\ CreateOrUpdateTask(id, params, now)

SpecProgress == InitProgress /\ [][NextProgress]_vars

----------------------------------------------------------------------------
(* Propagation: documents of PropTasks tasks without edges, some of them   *)
(* urgent (the highest priority and a finite deadline), and documents of a *)
(* diamond and of a chain among PropTasks tasks; the calls add and         *)
(* remove edges from a task to tasks of higher ids, so the graph stays     *)
(* acyclic, and lower priorities.  The calls follow the load.              *)

PropTasks == 4
PropSteps == 4

PropDocs ==
    {[i \in 1..PropTasks |->
        IF u[i] THEN [json_task(i - 1) EXCEPT !.priority = MaxPriority, !.deadline = SomeTime]
        ELSE json_task(i - 1)] : u \in [1..PropTasks -> BOOLEAN]}

\* The diamond: task 0 depends on 1 and 2, in either order, and both depend on
\* 3; one of the four is urgent.
DiamondDocs ==
    {[i \in 1..PropTasks |->
        [(IF i = k THEN [json_task(i - 1) EXCEPT !.priority = MaxPriority, !.deadline = SomeTime]
          ELSE json_task(i - 1))
         EXCEPT !.dependencies = IF i = 1 THEN d ELSE IF i = PropTasks THEN <<>> ELSE <<3>>]] :
        k \in 1..PropTasks, d \in {<<1, 2>>, <<2, 1>>}}

\* The chain: task 1 depends on task 2, the other tasks on nothing.
ChainDocs ==
    {[i \in 1..PropTasks |->
        [json_task(i - 1) EXCEPT !.dependencies = IF i = 2 THEN <<2>> ELSE <<>>]]}

\* The dependency arrays of task id: none, one or two distinct higher ids.
DownArrays(id) ==
    {<<>>} \cup {<<j>> : j \in (id + 1)..(PropTasks - 1)}
           \cup {p \in ((id + 1)..(PropTasks - 1)) \X ((id + 1)..(PropTasks - 1)) : p[1] # p[2]}

InitPropagation == InitEmpty(PropSteps)

NextPropagation ==
    \/ \E json \in PropDocs \cup DiamondDocs \cup ChainDocs : LoadTasks(json, 1)
    \/ \E id \in 0..(PropTasks - 1) : \E d \in DownArrays(id) :
            last.op # "new"
            /\ CreateOrUpdateTask(id, [NoParams EXCEPT !.dependencies = <<d>>], 1)
    \/ \E id \in 0..(PropTasks - 1) :
            last.op # "new"
            /\ CreateOrUpdateTask(id, [NoParams EXCEPT !.priority = <<1>>], 1)

SpecPropagation == InitPropagation /\ [][NextPropagation]_vars

----------------------------------------------------------------------------
(* Precedence: documents of PropTasks tasks without edges whose stored     *)
(* progress and birthline differ; the calls add and remove edges from a    *)
(* task to tasks of higher ids.  The calls follow the load.                *)

PrecSteps == 3

PrecTasks(id) ==
    {json_task(id),
     [json_task(id) EXCEPT !.progress = "done"],
     [json_task(id) EXCEPT !.progress = "failed"],
     [json_task(id) EXCEPT !.progress = "done", !.birthline = MaxNow]}

PrecDocs ==
    {<<t0, t1, t2, t3>> :
        t0 \in PrecTasks(0), t1 \in PrecTasks(1), t2 \in PrecTasks(2), t3 \in PrecTasks(3)}

InitPrecedence == InitEmpty(PrecSteps)

NextPrecedence ==
    \/ \E json \in PrecDocs : LoadTasks(json, 1)
    \/ \E id \in 0..(PropTasks - 2) : \E d \in DownArrays(id) :
            last.op # "new"
            /\ CreateOrUpdateTask(id, [NoParams EXCEPT !.dependencies = <<d>>], 1)

SpecPrecedence == InitPrecedence /\ [][NextPrecedence]_vars

----------------------------------------------------------------------------
(* Ids: documents of tasks without edges whose ids are any ids up to MaxId *)
(* and whose progress is todo or done, each with a recurrence rule; the    *)
(* calls delete tasks and set the progress of tasks of the graph.          *)

MaxId == 3
IdSteps == 3

RECURSIVE IdTasks(_, _)
\* The documents of the tasks with the ids of S from id on, in rising order.
IdTasks(S, id) ==
    IF id > MaxId THEN {<<>>}
    ELSE IF id \notin S THEN IdTasks(S, id + 1)
    ELSE {<<[json_task(id) EXCEPT !.progress = p]>> \o rest :
            p \in {"todo", "done"}, rest \in IdTasks(S, id + 1)}

IdDocs == UNION {IdTasks(S, 0) : S \in (SUBSET (0..MaxId)) \ {{}}}

InitIds == InitEmpty(IdSteps)

NextIds ==
    \/ \E json \in IdDocs : LoadTasks(json, 1)
    \/ \E id \in 0..MaxId : last.op # "new" /\ DeleteTask(id)
    \/ \E id \in DOMAIN tasks, p \in {"todo", "done"} :
            CreateOrUpdateTask(id, [NoParams EXCEPT !.progress = p], 1)

SpecIds == InitIds /\ [][NextIds]_vars

----------------------------------------------------------------------------
(* Order: documents of PropTasks tasks without edges, all done, some of    *)
(* them urgent; the calls add and remove edges from a task to tasks of     *)
(* higher ids.  The calls follow the load.                                 *)

OrderSteps == 3

OrderDocs ==
    {[i \in 1..PropTasks |-> [json[i] EXCEPT !.progress = "done"]] : json \in PropDocs}

InitOrder == InitEmpty(OrderSteps)

NextOrder ==
    \/ \E json \in OrderDocs : LoadTasks(json, 1)
    \/ \E id \in 0..(PropTasks - 2) : \E d \in DownArrays(id) :
            last.op # "new"
            /\ CreateOrUpdateTask(id, [NoParams EXCEPT !.dependencies = <<d>>], 1)

SpecOrder == InitOrder /\ [][NextOrder]_vars

----------------------------------------------------------------------------
(* What the properties speak of.                                           *)

\* The tasks of the graph.
Refs == TaskRefs(Graph)

Deps(r) == Range(heap[r].dependencies)

RECURSIVE Closure(_, _)
Closure(S, k) == IF k = 0 THEN S ELSE Closure(S \cup UNION {Deps(r) : r \in S}, k - 1)

\* The tasks r depends on, directly or not.
Descendants(r) == Closure(Deps(r), Len(heap))

\* The tasks of the graph that depend on r, directly or not.
Ancestors(r) == {a \in Refs : r \in Descendants(a)}

Cyclic == \E r \in Refs : r \in Descendants(r)

\* The last call reached compute.
Evaluated ==
    /\ last.op \in {"load_tasks", "create_or_update_task"}
    /\ last.err # ErrNoTask

\* The last call reached compute and returned.
Returned == Evaluated /\ last.err = ""

RootsExact == Range(roots) = {r \in Refs : heap[r].dependees = {}}

IsSet(finished) == finished \notin {Null, Undefined}

MinOf(S) == CHOOSE x \in S : \A y \in S : x <= y

MaxOf(S) == CHOOSE x \in S : \A y \in S : x >= y

----------------------------------------------------------------------------
(* The claims.                                                             *)

\* C1: an evaluation of a graph whose dependency relation has a cycle, no task
\* of which has its birthline after its computed deadline, fails with the
\* circular-dependency error.
C1_CycleFails ==
    (/\ Evaluated
     /\ Cyclic
     /\ \A r \in Refs : heap[r].birthline <= heap[r].computed_deadline)
    => last.err = ErrCycle

\* C2: after an evaluation that returned, every task of the graph has
\* birthline <= computed_deadline.
C2_RangeAfterEvaluation ==
    Returned => \A r \in Refs : heap[r].birthline <= heap[r].computed_deadline

\* C3: after an evaluation that returned, of an acyclic graph whose roots are
\* the tasks without dependees, every dependency d of every task t has
\* computed_priority >= t's and computed_deadline <= t's.
C3_DependencyAtLeastAsUrgent ==
    (Returned /\ ~Cyclic /\ RootsExact)
    => \A t \in Refs : \A d \in Deps(t) :
            /\ heap[d].computed_priority >= heap[t].computed_priority
            /\ heap[d].computed_deadline <= heap[t].computed_deadline

\* C4: after a create_or_update_task that returned, the computed deadline of a
\* task is not earlier than the earliest deadline, and its computed priority
\* not higher than the highest priority, among the task itself and the tasks
\* that now depend on it.
C4_NoStaleComputedValues ==
    (last.op = "create_or_update_task" /\ last.err = "")
    => \A r \in Refs :
            /\ heap[r].computed_deadline >=
                    MinOf({heap[a].deadline : a \in Ancestors(r) \cup {r}})
            /\ heap[r].computed_priority <=
                    MaxOf({heap[a].priority : a \in Ancestors(r) \cup {r}})

\* The progress C5 gives a task without dependencies: the second of the two
\* values under auto_fail past the deadline is the one for a task that was
\* already done.
LeafProgress(t, now) ==
    IF now < t.birthline THEN {"notyet"}
    ELSE IF t.auto_fail /\ now > t.computed_deadline
        THEN {"failed", IF t.group_like THEN "done" ELSE t.progress}
    ELSE IF t.group_like THEN {"done"}
    ELSE {t.progress}

\* C5: after an evaluation at now that returned, a task without dependencies
\* whose stored progress is not failed has the progress derived as for a task
\* whose dependencies are all done.
C5_LeafDerivation ==
    Returned
    => \A r \in Refs :
            (heap[r].dependencies = <<>> /\ heap[r].progress # "failed")
            => heap[r].computed_progress \in LeafProgress(heap[r], last.now)

\* C6: in a load_tasks or create_or_update_task that returned at now, a task
\* whose computed progress becomes done gets finished = now, and a task whose
\* computed progress stops being done gets finished cleared (so that finished
\* is set exactly while the task is done).
C6_FinishedFollowsDone ==
    [][(last'.op \in {"load_tasks", "create_or_update_task"} /\ last'.err = "")
        => \A r \in TaskRefs([tasks |-> tasks']) \cap DOMAIN heap :
                /\ (heap[r].computed_progress # "done" /\ heap'[r].computed_progress = "done")
                    => heap'[r].finished = last'.now
                /\ (heap[r].computed_progress = "done" /\ heap'[r].computed_progress # "done")
                    => ~IsSet(heap'[r].finished)]_vars

\* C7: a task with a recurrence rule based on finished whose computed progress
\* becomes done in an evaluation at now gets a next_instance whose deadline
\* and computed_deadline are now + offset.
C7_NextInstanceFromFinished ==
    [][(last'.op = "create_or_update_task" /\ last'.err = "")
        => \A r \in TaskRefs([tasks |-> tasks']) \cap DOMAIN heap :
                (/\ ~heap'[r].recurrence.isnull
                 /\ heap'[r].recurrence.offset_base = "finished"
                 /\ heap[r].computed_progress # "done"
                 /\ heap'[r].computed_progress = "done")
                => heap'[r].recurrence.next_instance =
                        clone_instance(heap'[r].recurrence.next_instance.id,
                                       last'.now + heap'[r].recurrence.offset)]_vars

\* Every task of the graph is a root or a descendant of one.
AllReachable == Refs \subseteq Range(roots) \cup UNION {Descendants(r) : r \in Range(roots)}

\* C8: after load_tasks and after create_or_update_task and delete_task calls
\* the roots are exactly the tasks without dependees, and every task is
\* reachable from a root; stated of the acyclic graphs, where the two agree.
C8_RootsAreTheTasksWithoutDependees ==
    (last.op # "new" /\ last.err = "" /\ ~Cyclic) => (RootsExact /\ AllReachable)

\* C9: dependencies and dependees mirror each other among the tasks of the
\* graph, and a deleted task is in no dependees set.
C9_EdgesMirrored ==
    [][/\ \A a, b \in TaskRefs([tasks |-> tasks']) :
            b \in Range(heap'[a].dependencies) <=> a \in heap'[b].dependees
       /\ (last'.op = "delete_task" /\ last'.err = "" /\ last'.id \in DOMAIN tasks)
            => \A b \in TaskRefs([tasks |-> tasks']) :
                    tasks[last'.id] \notin heap'[b].dependees]_vars

\* C10: a create_or_update_task that names a dependency id that is no task of
\* the graph leaves the graph as it was.
C10_FailedUpdateChangesNothing ==
    [][(last'.op = "create_or_update_task" /\ last'.err = ErrNoTask)
        => (heap' = heap /\ tasks' = tasks /\ roots' = roots)]_vars

\* C11: after a create_or_update_task that returned, get_task of that id gives
\* a task with that id (so a later call with the id updates that task).
C11_CreatedTaskIsInTheGraph ==
    (last.op = "create_or_update_task" /\ last.err = "")
    => /\ get_task(Graph, last.id) # 0
       /\ heap[get_task(Graph, last.id)].id = last.id

\* The possible_dependencies of t hold neither t, nor a dependency of t, nor a
\* task that depends on t.
NoCycleByAdding(t) ==
    heap[t].possible_dependencies \cap ({t} \cup Deps(t) \cup Ancestors(t)) = {}

\* C12: after an evaluation that returned, no task's possible_dependencies
\* hold the task itself, one of its dependencies, or a task that depends on it.
C12_PossibleDependenciesAreLegal ==
    Returned => \A t \in Refs : NoCycleByAdding(t)

\* C12, of the tasks that depend on t only: adding a possible dependency makes
\* no cycle.
C12_NoAncestorPossible ==
    (Returned /\ ~Cyclic /\ RootsExact)
    => \A t \in Refs : heap[t].possible_dependencies \cap ({t} \cup Ancestors(t)) = {}

\* The fields an evaluation computes.
ComputedFields(t) ==
    <<t.computed_priority, t.computed_deadline, t.computed_progress, t.finished,
      t.recurrence.next_instance>>

\* Whether the heap h has the computed fields of the graph's tasks as they are.
SameComputedFields(h) ==
    \A r \in Refs : ComputedFields(h[r]) = ComputedFields(heap[r])

\* C13: after an evaluation at now that returned, evaluating the graph again
\* at the same now changes no computed field.
C13_SecondEvaluationChangesNothing ==
    Returned => SameComputedFields(compute(Graph, last.now).heap)

\* The tasks a pass enters: the roots and the tasks they depend on.
Walked == Range(roots) \cup UNION {Descendants(r) : r \in Range(roots)}

\* The progress of t follows the precedence over cps, the progress of its
\* dependencies.
Precedence(t, cps) ==
    /\ IF t.progress = "failed" THEN t.computed_progress = "failed"
       ELSE IF "failed" \in cps THEN t.computed_progress = "failed"
       ELSE IF "notyet" \in cps THEN t.computed_progress = "notyet"
       ELSE IF cps # {"done"} THEN t.computed_progress = "blocked"
       ELSE TRUE
    /\ t.computed_progress \in {"todo", "started", "done"} => cps = {"done"}

\* C14: after an evaluation that returned, every task with a dependency that
\* the pass entered has failed if its stored progress is failed, else failed
\* if a dependency has failed, else notyet if a dependency is notyet, else
\* blocked if a dependency is not done.
C14_ProgressPrecedence ==
    Returned
    => \A t \in Refs \cap Walked :
            heap[t].dependencies # <<>>
            => Precedence(heap[t], {heap[d].computed_progress : d \in Deps(t)})

\* C14: a task the pass entered, whose stored progress is not failed, has a
\* failed and a notyet dependency, and has failed.
C14_Witness ==
    /\ Returned
    /\ \E t \in Refs \cap Walked :
            /\ heap[t].progress # "failed"
            /\ {"failed", "notyet"} \subseteq {heap[d].computed_progress : d \in Deps(t)}
            /\ heap[t].computed_progress = "failed"

\* A task with dependencies, all of them done, that is born by now.
ReadyAt(h, t, now) ==
    /\ h[t].dependencies # <<>>
    /\ \A d \in Range(h[t].dependencies) : h[d].computed_progress = "done"
    /\ h[t].birthline <= now

\* C15: after an evaluation at now that returned, a task with auto_fail set,
\* group_like unset, stored progress started and dependencies that are all
\* done, born by now, is started when now is its computed deadline and failed
\* when now is one later.
C15_AutoFailAfterDeadline ==
    Returned
    => \A t \in Refs :
            (/\ heap[t].auto_fail /\ ~heap[t].group_like
             /\ heap[t].progress = "started"
             /\ ReadyAt(heap, t, last.now))
            => /\ last.now = heap[t].computed_deadline
                    => heap[t].computed_progress = "started"
               /\ last.now = heap[t].computed_deadline + 1
                    => heap[t].computed_progress = "failed"

\* C16: an evaluation at now that returned leaves a task with group_like set,
\* stored progress todo and dependencies that are all done, with now between
\* its birthline and its computed deadline, done with its stored progress
\* todo, and with finished = now if it was not done before.
C16_GroupLikeDone ==
    [][(last'.op \in {"load_tasks", "create_or_update_task"} /\ last'.err = "")
        => \A t \in TaskRefs([tasks |-> tasks']) :
                (/\ heap'[t].group_like
                 /\ heap'[t].progress = "todo"
                 /\ ReadyAt(heap', t, last'.now)
                 /\ last'.now <= heap'[t].computed_deadline)
                => /\ heap'[t].computed_progress = "done"
                   /\ (t \notin DOMAIN heap \/ heap[t].computed_progress # "done")
                        => heap'[t].finished = last'.now]_vars

\* a depends on b and c, which both depend on d, which depends on nothing.
IsDiamond(a, b, c, d) ==
    /\ Cardinality({a, b, c, d}) = 4
    /\ Deps(a) = {b, c} /\ Deps(b) = {d} /\ Deps(c) = {d} /\ Deps(d) = {}

\* C17: after the one evaluation of a load_tasks that returned, the bottom of
\* a diamond has the highest priority and the earliest deadline of the four
\* tasks as its computed priority and computed deadline.
C17_DiamondBottomInherits ==
    (last.op = "load_tasks" /\ last.err = "")
    => \A a, b, c, d \in Refs :
            IsDiamond(a, b, c, d)
            => /\ heap[d].computed_priority =
                    MaxOf({heap[x].priority : x \in {a, b, c, d}})
               /\ heap[d].computed_deadline =
                    MinOf({heap[x].deadline : x \in {a, b, c, d}})

\* C18: after every evaluation every task has computed_priority >= priority
\* and computed_deadline <= deadline.
C18_ComputedAtLeastAsUrgentAsStored ==
    Evaluated
    => \A r \in Refs :
            /\ heap[r].computed_priority >= heap[r].priority
            /\ heap[r].computed_deadline <= heap[r].deadline

\* C18: after a create_or_update_task a task has a computed priority above
\* its priority and a computed deadline before its deadline.
C18_Witness ==
    /\ last.op = "create_or_update_task" /\ last.err = ""
    /\ \E r \in Refs :
            /\ heap[r].computed_priority > heap[r].priority
            /\ heap[r].computed_deadline < heap[r].deadline

\* C19: a delete_task of an id that no task has changes nothing; of a task
\* whose dependees are not empty it throws and changes nothing; of any other
\* task it takes the task out of the tasks and out of the roots.
C19_DeleteTask ==
    [][last'.op = "delete_task"
        => IF last'.id \notin DOMAIN tasks
           THEN last'.err = "" /\ UNCHANGED <<heap, tasks, roots>>
           ELSE IF heap[tasks[last'.id]].dependees # {}
           THEN last'.err = ErrDependees /\ UNCHANGED <<heap, tasks, roots>>
           ELSE /\ last'.err = ""
                /\ DOMAIN tasks' = DOMAIN tasks \ {last'.id}
                /\ \A i \in DOMAIN tasks' : tasks'[i] = tasks[i]
                /\ Range(roots') = Range(roots) \ {tasks[last'.id]}]_vars

\* C19: a delete_task threw because the task has dependees, and the task is
\* still in the graph.
C19_Witness ==
    /\ last.op = "delete_task" /\ last.err = ErrDependees
    /\ last.id \in DOMAIN tasks
    /\ heap[tasks[last.id]].dependees # {}

\* The smallest non-negative integer that is not among ids.
LeastFree(ids) ==
    MinOf({n \in 0..(MaxOf(ids \cup {0}) + 1) : n \notin ids})

\* In the graph tg every next_instance has the smallest free id, which is the
\* id of no task, and smallest_available_id gives that id.
FreshInstanceIds(tg) ==
    /\ smallest_available_id(tg) = LeastFree(DOMAIN tg.tasks)
    /\ \A r \in TaskRefs(tg) :
            ~tg.heap[r].recurrence.next_instance.isnull
            => /\ tg.heap[r].recurrence.next_instance.id = LeastFree(DOMAIN tg.tasks)
               /\ tg.heap[r].recurrence.next_instance.id \notin DOMAIN tg.tasks

\* C20: smallest_available_id gives the smallest non-negative integer that is
\* the id of no task of the graph; after an evaluation that returned every
\* next_instance has that id, which differs from the id of every task, and a
\* create_or_update_task of a task of the graph leaves the ids of the graph
\* as they were.
C20_SmallestAvailableId ==
    [][(last'.op \in {"load_tasks", "create_or_update_task"} /\ last'.err = "")
        => /\ FreshInstanceIds([heap |-> heap', tasks |-> tasks'])
           /\ (last'.op = "create_or_update_task" /\ last'.id \in DOMAIN tasks)
                => DOMAIN tasks' = DOMAIN tasks]_vars

\* C20: after an evaluation that returned, a next_instance has an id below the
\* id of a task of the graph.
C20_Witness ==
    /\ Returned
    /\ \E r \in Refs :
            /\ ~heap[r].recurrence.next_instance.isnull
            /\ heap[r].recurrence.next_instance.id < MaxOf(DOMAIN tasks)

\* The walks that left st ended, returning or throwing one of the two errors
\* of the traversal; no task's progress was derived twice, and none before
\* its dependencies were all black.
DerivedInOrder(st) ==
    /\ st.err \in {"", ErrCycle, ErrRange}
    /\ \A i, j \in 1..Len(st.log) : st.log[i].task = st.log[j].task => i = j
    /\ \A i \in 1..Len(st.log) : st.log[i].ready

\* C21: an evaluation of the graph the calls have built ends, returning or
\* failing, also when the graph has a cycle; it derives the progress of each
\* task at most once, and only after all its dependencies are black.
C21_EvaluationEndsDerivingOnce ==
    last.op # "new" => DerivedInOrder(walk(Graph, last.now))

StoredFields(t) ==
    <<t.id, t.deadline, t.birthline, t.priority, t.progress, t.auto_fail, t.group_like,
      t.dependencies, t.dependees>>

\* The graph after has the task objects, the task set and the roots set of the
\* graph of the state, every task with its stored fields as they are, and no
\* next_instance carries the id of a task of the graph.
OnlyComputedChanged(after) ==
    /\ DOMAIN after.heap = DOMAIN heap
    /\ after.tasks = tasks
    /\ after.roots = roots
    /\ \A r \in DOMAIN heap : StoredFields(after.heap[r]) = StoredFields(heap[r])
    /\ after.err = "" =>
            \A r \in TaskRefs(after) :
                ~after.heap[r].recurrence.next_instance.isnull
                => after.heap[r].recurrence.next_instance.id \notin DOMAIN after.tasks

\* The evaluation that gave the graph after changed a computed field of a task
\* and gave a task a next_instance it did not have.
ComputedChanged(after) ==
    /\ after.err = ""
    /\ \E r \in TaskRefs(after) :
            <<after.heap[r].computed_priority, after.heap[r].computed_deadline,
              after.heap[r].computed_progress>>
                # <<heap[r].computed_priority, heap[r].computed_deadline,
                    heap[r].computed_progress>>
    /\ \E r \in TaskRefs(after) :
            /\ heap[r].recurrence.next_instance.isnull
            /\ ~after.heap[r].recurrence.next_instance.isnull

\* C22: an evaluation of the graph, at any now and whether it returns or
\* throws, leaves the stored fields (id, deadline, birthline, priority,
\* progress, auto_fail, group_like, dependencies, dependees) of every task, the
\* task set and the roots set unchanged, and a next_instance it generates is
\* in neither set.
C22_ComputeChangesOnlyComputedFields ==
    \A now \in Nows : OnlyComputedChanged(compute(Graph, now))

\* An evaluation of the graph changes computed fields and generates a
\* next_instance.
C22_Witness ==
    \E now \in Nows : ComputedChanged(compute(Graph, now))

\* The orders a Set holding the elements of seq can iterate in.
Orders(seq) == {p \in [1..Len(seq) -> Range(seq)] : Range(p) = Range(seq)}

\* The graphs that differ from tg in the iteration order of roots and of the
\* dependencies of each task at most.
Reordered(tg) ==
    {[tg EXCEPT !.roots = rs,
                !.heap = [r \in DOMAIN tg.heap |-> [tg.heap[r] EXCEPT !.dependencies = ds[r]]]] :
        rs \in Orders(tg.roots),
        ds \in {f \in [DOMAIN tg.heap -> UNION {Orders(tg.heap[r].dependencies) :
                                                    r \in DOMAIN tg.heap}] :
                    \A r \in DOMAIN tg.heap : f[r] \in Orders(tg.heap[r].dependencies)}}

RECURSIVE ClosureIn(_, _, _)
ClosureIn(tg, S, k) ==
    IF k = 0 THEN S
    ELSE ClosureIn(tg, S \cup UNION {Range(tg.heap[r].dependencies) : r \in S}, k - 1)

\* tg is acyclic, its roots are the tasks without dependees, and the computed
\* fields of its tasks equal the stored ones.
FreshExactAcyclic(tg) ==
    /\ tg.err = ""
    /\ \A r \in TaskRefs(tg) :
            r \notin ClosureIn(tg, Range(tg.heap[r].dependencies), Len(tg.heap))
    /\ Range(tg.roots) = {r \in TaskRefs(tg) : tg.heap[r].dependees = {}}
    /\ \A r \in TaskRefs(tg) :
            /\ tg.heap[r].computed_priority = tg.heap[r].priority
            /\ tg.heap[r].computed_deadline = tg.heap[r].deadline
            /\ tg.heap[r].computed_progress = tg.heap[r].progress

\* The computed progress, priority and deadline of the tasks of tg.
Outcome(tg) ==
    [r \in TaskRefs(tg) |->
        <<tg.heap[r].computed_progress, tg.heap[r].computed_priority,
          tg.heap[r].computed_deadline>>]

\* Evaluating tg at now gives the same computed fields in every order.
OrderFree(tg, now) ==
    FreshExactAcyclic(tg) =>
        \A other \in Reordered(tg) : Outcome(compute(other, now)) = Outcome(compute(tg, now))

\* C23: when a call create_or_update_task(id, {dependencies}) reaches its
\* evaluation (line 163) with an acyclic graph whose roots are the tasks
\* without dependees and whose computed fields equal the stored ones, the
\* computed progress, priority and deadline of every task after the evaluation
\* are the same for every iteration order of the roots and of each task's
\* dependencies.
C23_OrderOfIterationIrrelevant ==
    last.op # "new" =>
        \A id \in 0..(PropTasks - 2) : \A d \in DownArrays(id) :
            OrderFree(strip(updated(Graph, id, [NoParams EXCEPT !.dependencies = <<d>>])), 1)

====
